---- MODULE Spec2Model ----
(***************************************************************************)
(* Multi-method authentication of the Magic MCP HTTP server.               *)
(*                                                                         *)
(* createAuthMiddleware builds a chain of verifiers (API key, OIDC, Basic) *)
(* from the configuration; composeAuthMiddleware runs the chain for every  *)
(* request to /api/*.  JavaScript runs a handler to completion between two *)
(* awaits that really suspend, so one action of the model is one such run: *)
(* from the arrival of a request, or from the completion of an awaited     *)
(* operation (the discovery fetch, jwtVerify, the downstream handler), to  *)
(* the next suspension or to the end of the request.                       *)
(*                                                                         *)
(* Strings the code slices (API keys, decoded Basic credentials,           *)
(* principals) are sequences of one-character strings.  An optional value  *)
(* is a sequence of length 0 (undefined) or 1.                             *)
(*                                                                         *)
(* The second part is the CallbackServer that createUi starts to receive   *)
(* the component from the browser: the search for a free port, the         *)
(* listening server, the POST /data requests and the timeout timer.  It    *)
(* has a specification of its own, CallbackSpec; in Spec no callback       *)
(* server is started, in CallbackSpec no request is authenticated.         *)
(***************************************************************************)
EXTENDS Naturals, Sequences, FiniteSets, TLC

VARIABLES
    config,      \* the loaded configuration (config.auth)
    oidc,        \* the OIDCAuth instance: this.config.jwksUri and this.jwks
    fetches,     \* number of discovery fetches issued so far
    reqs,        \* per request: its content, its Hono context and where it is suspended
    occupied,    \* the ports of 127.0.0.1 that other processes listen on
    calls,       \* per createUi call: its CallbackServer instance and where it is suspended
    posts        \* per HTTP request sent by a browser: where it is and how it was answered

auth == <<config, oidc, fetches, reqs>>
callback == <<occupied, calls, posts>>
vars == <<config, oidc, fetches, reqs, occupied, calls, posts>>

None == <<>>
Some(v) == <<v>>
IsSome(o) == Len(o) = 1
Val(o) == o[1]

\* ------------------------------------------------------------------ bounds

\* Requests that may be in flight next to the observed request.
NumBackground == 1

\* Request 0 is the observed request, requests 1..NumBackground the background.
Requests == 0..NumBackground
IsObserved(r) == r = 0

\* ------------------------------------------------------------------ text

\* s.substring(0, n)
Substring0(s, n) == SubSeq(s, 1, IF n < Len(s) THEN n ELSE Len(s))

\* s.substring(n) for 0 <= n
SubstringFrom(s, n) == SubSeq(s, n + 1, Len(s))

\* s.indexOf(ch), 0-based; Len(s) + 1 stands for the -1 of "not found"
NotFound(s) == Len(s) + 1
IndexOf(s, ch) ==
    IF \E i \in 1..Len(s) : s[i] = ch
    THEN (CHOOSE i \in 1..Len(s) : s[i] = ch /\ \A j \in 1..(i - 1) : s[j] # ch) - 1
    ELSE NotFound(s)

\* t occurs in s as a contiguous substring (s.includes(t))
Includes(s, t) ==
    \E i \in 0..(Len(s) - Len(t)) : SubSeq(s, i + 1, i + Len(t)) = t

\* ------------------------------------------------------------------ inputs

Methods == {"api-key", "oidc", "basic"}

\* API keys are prefixes of one text, so that a key can be a prefix of another.
KeyText == <<"s", "3", "c", "r", "3", "t", "K", "e", "y", "!">>
Key(n) == SubSeq(KeyText, 1, n)

\* AUTH_API_KEYS: keys shorter than, exactly and longer than the 8 characters shown.
ApiKeyRegistry == {Key(2), Key(8), Key(9)}

UserAl == <<"a", "l">>
UserBo == <<"b", "o">>
UserCy == <<"c", "y">>
PassPw == <<"p", "w">>
PassWithColon == <<"p", ":", "w">>

\* createHash('sha256').update(password).digest('hex'): injective on the passwords used
hashPassword(password) == <<"sha256(">> \o password \o <<")">>

\* BASIC_AUTH_USERS
BasicUsers ==
    [u \in {UserAl, UserCy} |-> IF u = UserAl THEN hashPassword(PassPw)
                                ELSE hashPassword(PassWithColon)]

JwksUriConfigured == "https://idp.example/jwks-configured"
JwksUriDiscovered == "https://idp.example/jwks-discovered"
JwksUriRotated == "https://idp.example/jwks-rotated"
JwksUriRelative == "/jwks"

\* new URL(text) returns for an absolute URL and throws for any other text
IsAbsoluteUrl(text) == text \in {JwksUriConfigured, JwksUriDiscovered, JwksUriRotated}

\* Buffer.from(text, 'base64').toString('utf-8') on the credentials used
Base64Decode(b64) ==
    CASE b64 = "YWw6cHc=" -> <<"a", "l", ":", "p", "w">>
      [] b64 = "YWw6bm8=" -> <<"a", "l", ":", "n", "o">>
      [] b64 = "Ym86cHc=" -> <<"b", "o", ":", "p", "w">>
      [] b64 = "YWxwdw==" -> <<"a", "l", "p", "w">>
      [] b64 = "Y3k6cDp3" -> <<"c", "y", ":", "p", ":", "w">>
      [] b64 = "YWw6" -> <<"a", "l", ":">>
      [] OTHER -> <<>>

\* al:pw, al:no, bo:pw, alpw, cy:p:w and al: (an empty password)
BasicCredentials == {"YWw6cHc=", "YWw6bm8=", "Ym86cHc=", "YWxwdw==", "Y3k6cDp3", "YWw6"}

\* Bearer tokens: what jose's jwtVerify finds for each against the issuer's key
\* set, the configured issuer and the configured audience
\* tokens that verify: with all three name claims, with an empty sub, with an
\* empty email and no sub, with no name claim
ValidTokens == {"jwt-valid", "jwt-empty-sub", "jwt-empty-email", "jwt-no-names"}

Tokens ==
    ValidTokens
    \cup {"jwt-expired", "jwt-bad-signature", "jwt-wrong-issuer",
          "jwt-wrong-audience", "jwt-not-yet-valid", "jwt-unknown-kid"}
TokenVerifies(token) == token \in ValidTokens

\* the message of the error jwtVerify rejects with for a token that fails a check
TokenCheckFailure(token) ==
    CASE token = "jwt-expired" -> "\"exp\" claim timestamp check failed"
      [] token = "jwt-bad-signature" -> "signature verification failed"
      [] token = "jwt-wrong-issuer" -> "unexpected \"iss\" claim value"
      [] token = "jwt-wrong-audience" -> "unexpected \"aud\" claim value"
      [] token = "jwt-not-yet-valid" -> "\"nbf\" claim timestamp check failed"
      [] token = "jwt-unknown-kid" -> "no applicable key found in the JSON Web Key Set"
      [] OTHER -> ""

\* the message of the error jwtVerify rejects with when it cannot fetch the key set
JwksFetchFailure == "Expected 200 OK from the JSON Web Key Set HTTP response"
TokenSub(token) == <<"u", "1">>
TokenEmail(token) == <<"u", "@", "x">>
TokenName(token) == <<"u", "s", "e", "r">>

AuthorizationHeaders ==
    {None}
    \cup {Some([scheme |-> "Basic", cred |-> b]) : b \in BasicCredentials}
    \cup {Some([scheme |-> "Bearer", cred |-> t]) : t \in Tokens}
    \cup {Some([scheme |-> "Digest", cred |-> "x"])}

\* the registry key "s3" in another case
KeyInOtherCase == <<"S", "3">>

\* Candidates: no header, an empty one, registry keys, a key that is a prefix of
\* registry keys and extends another, and a registry key in another case.
ApiKeyHeaders ==
    {None, Some(<<>>), Some(Key(2)), Some(Key(5)), Some(Key(8)), Some(Key(9)),
     Some(KeyInOtherCase)}
ApiKeyQueries == {None, Some(Key(2)), Some(Key(5))}

\* The observed request: every API key header with a few Authorization headers,
\* every Authorization header with a few API key headers, and a query parameter
\* next to every API key header.
FewAuthorizations ==
    {None, Some([scheme |-> "Basic", cred |-> "YWw6cHc="]),
     Some([scheme |-> "Bearer", cred |-> "jwt-valid"])}

FewApiKeyHeaders == {None, Some(Key(5))}

\* Paths are sequences of segments.  The routes mounted by createApp.
CreateUiPath == <<"api", "create-ui">>
ApiPaths == {CreateUiPath, <<"api", "logo-search">>}
HealthPaths ==
    {<<"health">>, <<"health", "detailed">>, <<"health", "ready">>, <<"health", "live">>}

\* Every credential is sent to /api/create-ui; the other paths get a request
\* without credentials and one with a registry key.
RequestContents ==
    {q \in [path : ApiPaths \cup HealthPaths, apiKeyHeader : ApiKeyHeaders,
            apiKeyQuery : ApiKeyQueries, authorization : AuthorizationHeaders] :
        /\ \/ q.authorization \in FewAuthorizations
           \/ q.apiKeyHeader \in FewApiKeyHeaders
        /\ q.apiKeyQuery # None => q.authorization = None
        /\ \/ q.path = CreateUiPath
           \/ /\ q.authorization = None /\ q.apiKeyQuery = None
              /\ q.apiKeyHeader \in {None, Some(Key(2))}}

\* The traffic next to the observed request: no credential, an API key, a token.
BackgroundContents ==
    {q \in RequestContents :
        /\ q.path = CreateUiPath
        /\ q.apiKeyQuery = None
        /\ q.apiKeyHeader \in {None, Some(Key(9))}
        /\ q.authorization \in {None, Some([scheme |-> "Bearer", cred |-> "jwt-valid"])}
        /\ (q.apiKeyHeader # None => q.authorization = None)}

ContentsOf(r) == IF IsObserved(r) THEN RequestContents ELSE BackgroundContents

\* parseList(AUTH_METHODS): every method alone, every pair of methods (api-key and
\* oidc in both orders), and all three in two orders
MethodLists ==
    {<<m>> : m \in Methods}
    \cup {<<"api-key", "oidc">>, <<"oidc", "api-key">>, <<"api-key", "basic">>,
          <<"basic", "oidc">>}
    \cup {<<"api-key", "oidc", "basic">>, <<"basic", "oidc", "api-key">>}

InList(ms, m) == \E i \in 1..Len(ms) : ms[i] = m

Issuer == "https://idp.example"
ClientId == "magic-mcp"

\* config.auth.oidc when OIDC_ISSUER is set; clientId is OIDC_CLIENT_ID || ''
OidcConfig(jwksUri, clientId) == [issuer |-> Issuer, clientId |-> clientId, jwksUri |-> jwksUri]

\* parseJSON(BASIC_AUTH_USERS, {}) for BASIC_AUTH_USERS={} or a text that is no JSON
NoUsers == [u \in {} |-> <<>>]

\* AUTH_METHODS=apikey: a name that is none of the three methods
MisspelledMethods == <<"apikey">>

\* loadConfig's auth section for the environments considered; all pass
\* validateConfig.  Two have a method listed with OIDC_CLIENT_ID unset and with
\* BASIC_AUTH_USERS={}.  One has AUTH_METHODS=apikey next to AUTH_API_KEYS.  The
\* last has AUTH_ENABLED=false next to a complete configuration of every method.
Configs ==
    {[enabled |-> TRUE, methods |-> ms,
      apiKeys |-> IF InList(ms, "api-key") THEN ApiKeyRegistry ELSE {},
      oidc |-> IF InList(ms, "oidc") THEN Some(OidcConfig(j, ClientId)) ELSE None,
      basicAuth |-> IF InList(ms, "basic") THEN Some(BasicUsers) ELSE None] :
        ms \in MethodLists, j \in {None, Some(JwksUriConfigured)}}
    \cup {[enabled |-> TRUE, methods |-> <<"oidc">>, apiKeys |-> {},
           oidc |-> Some(OidcConfig(Some(JwksUriConfigured), "")), basicAuth |-> None],
          [enabled |-> TRUE, methods |-> <<"basic">>, apiKeys |-> {},
           oidc |-> None, basicAuth |-> Some(NoUsers)]}
    \cup {[enabled |-> TRUE, methods |-> MisspelledMethods, apiKeys |-> ApiKeyRegistry,
           oidc |-> None, basicAuth |-> None]}
    \cup {[enabled |-> FALSE, methods |-> <<"api-key", "oidc", "basic">>,
           apiKeys |-> ApiKeyRegistry,
           oidc |-> Some(OidcConfig(Some(JwksUriConfigured), ClientId)),
           basicAuth |-> Some(BasicUsers)]}

\* validateConfig's checks of the auth section: TRUE when it pushes no error
validateConfig(cfg) ==
    cfg.enabled =>
        /\ Len(cfg.methods) # 0
        /\ ~(InList(cfg.methods, "api-key") /\ cfg.apiKeys = {})
        /\ ~(InList(cfg.methods, "oidc") /\ cfg.oidc = None)
        /\ ~(InList(cfg.methods, "basic") /\ cfg.basicAuth = None)

\* ------------------------------------------------------------------ errors

\* AppError subclasses carry a status code; any other error is answered 500 by app.onError
AuthenticationError(message) == [type |-> "AuthenticationError", message |-> message]
PlainError(message) == [type |-> "Error", message |-> message]

\* a thrown value that is not an Error
NotAnError(value) == [type |-> "value", message |-> value]

\* error instanceof Error
IsError(error) == error.type \in {"Error", "AuthenticationError"}
NoError == [type |-> "", message |-> ""]

AuthenticationStatus == 401
InternalErrorStatus == 500

StatusOf(error) ==
    IF error.type = "AuthenticationError" THEN AuthenticationStatus ELSE InternalErrorStatus

\* ------------------------------------------------------------------ the Hono context of a request

NoRequest ==
    [path |-> <<>>, apiKeyHeader |-> None, apiKeyQuery |-> None, authorization |-> None]

\* pc: where the request is suspended.  idx: the verifier the loop of
\* composeAuthMiddleware is at.  errors: its errors array.  auth: c.get('auth').
\* wwwAuthenticate: the response header set with c.header.  log: the verifier
\* invocations so far, each with what it threw.  dispatched: calls of the real next().
\* composed: the composed auth middleware was called for the request.
\* rejections: the times the real next() rejected.
IdleContext ==
    [pc |-> "idle", req |-> NoRequest, idx |-> 1, errors |-> <<>>, auth |-> None,
     wwwAuthenticate |-> None, log |-> <<>>, dispatched |-> 0, outcome |-> None,
     composed |-> FALSE, rejections |-> 0]

\* A verifier ends by returning (after its next(), a no-op in the chain) or by throwing.
\* Or it is suspended in an await, and the run ends there.
\* The log keeps the error thrown to the orchestrator, its cause (the error first
\* raised inside the verifier) and the WWW-Authenticate header as it is at that moment.
Returns(c, method) ==
    [kind |-> "returned", error |-> NoError,
     ctx |-> [c EXCEPT !.log = Append(@, [method |-> method, result |-> "returned",
                                           error |-> NoError, cause |-> NoError,
                                           challenge |-> c.wwwAuthenticate])]]

ThrowsFor(c, method, error, cause) ==
    [kind |-> "threw", error |-> error,
     ctx |-> [c EXCEPT !.log = Append(@, [method |-> method, result |-> "threw",
                                           error |-> error, cause |-> cause,
                                           challenge |-> c.wwwAuthenticate])]]

Throws(c, method, error) == ThrowsFor(c, method, error, error)

Awaits(c, what) == [kind |-> "awaiting", error |-> NoError, ctx |-> [c EXCEPT !.pc = what]]

\* JavaScript's !value for an optional string
Falsy(o) == o = None \/ Val(o) = <<>>

\* ------------------------------------------------------------------ API key verifier

ApiKeyPrefix == <<"a", "p", "i", "-", "k", "e", "y", "-">>
Ellipsis == <<".", ".", ".">>
ShownChars == 8

\* `api-key-${apiKey.substring(0, 8)}...`
ApiKeyUser(apiKey) == ApiKeyPrefix \o Substring0(apiKey, ShownChars) \o Ellipsis

\* the query parameter preferred to the header
ExtractApiKeyQueryFirst(req) ==
    IF Falsy(req.apiKeyQuery) THEN req.apiKeyHeader ELSE req.apiKeyQuery

\* the key the verifier looks at: the header, and the query parameter if that is falsy
ExtractApiKey(req) == IF Falsy(req.apiKeyHeader) THEN req.apiKeyQuery ELSE req.apiKeyHeader

\* a candidate accepted when a configured key begins with it
IsValidApiKeyByPrefix(apiKey) ==
    \E key \in config.apiKeys : Substring0(key, Len(apiKey)) = apiKey

\* config.apiKeys.includes(apiKey)
IsValidApiKey(apiKey) == apiKey \in config.apiKeys

ApiKeyAuth(c) ==
    LET apiKey == ExtractApiKey(c.req) IN
    IF Falsy(apiKey)
    THEN Throws(c, "api-key", AuthenticationError(
             "API key is required. Provide it via header or query parameter."))
    ELSE IF ~IsValidApiKey(Val(apiKey))
    THEN Throws(c, "api-key", AuthenticationError("Invalid API key"))
    ELSE Returns([c EXCEPT !.auth = Some([method |-> "api-key",
                                          user |-> ApiKeyUser(Val(apiKey)),
                                          claims |-> None])],
                 "api-key")

\* ------------------------------------------------------------------ Basic verifier

Realm == "Magic MCP Server"
BasicChallenge == Some(<<"Basic realm=", Realm>>)

\* s.lastIndexOf(ch), 0-based
LastIndexOf(s, ch) ==
    IF \E i \in 1..Len(s) : s[i] = ch
    THEN (CHOOSE i \in 1..Len(s) : s[i] = ch /\ \A j \in (i + 1)..Len(s) : s[j] # ch) - 1
    ELSE NotFound(s)

\* the decoded text split at its last ':'
parseBasicAuthAtLastColon(authHeader) ==
    IF authHeader.scheme # "Basic" \/ authHeader.cred = ""
    THEN None
    ELSE LET decoded == Base64Decode(authHeader.cred)
             colonIndex == LastIndexOf(decoded, ":")
         IN IF colonIndex = NotFound(decoded)
            THEN None
            ELSE Some([username |-> Substring0(decoded, colonIndex),
                       password |-> SubstringFrom(decoded, colonIndex + 1)])

\* /^Basic\s+(.+)$/i, then the decoded text split at its first ':'
parseBasicAuth(authHeader) ==
    IF authHeader.scheme # "Basic" \/ authHeader.cred = ""
    THEN None
    ELSE LET decoded == Base64Decode(authHeader.cred)
             colonIndex == IndexOf(decoded, ":")
         IN IF colonIndex = NotFound(decoded)
            THEN None
            ELSE Some([username |-> Substring0(decoded, colonIndex),
                       password |-> SubstringFrom(decoded, colonIndex + 1)])

\* a message that tells an unknown user from a wrong password
UnknownUserRevealed == "Unknown user"

UnknownUserMessage == "Invalid username or password"
WrongPasswordMessage == "Invalid username or password"

\* a verifier that signals a wrong password without having set the header
BasicAuthParsedSilentOnWrongPassword(c, challenged, credentials) ==
    LET users == Val(config.basicAuth)
        username == Val(credentials).username
        password == Val(credentials).password
    IN
    IF credentials = None
    THEN Throws(challenged, "basic",
                AuthenticationError("Invalid Basic authentication format"))
    ELSE IF username \notin DOMAIN users
    THEN Throws(challenged, "basic", AuthenticationError("Invalid username or password"))
    ELSE IF hashPassword(password) # users[username]
    THEN Throws(c, "basic", AuthenticationError("Invalid username or password"))
    ELSE Returns([c EXCEPT !.auth = Some([method |-> "basic", user |-> username,
                                          claims |-> None])],
                 "basic")

\* a verifier that sets the header before it looks at the credentials
BasicAuthParsedChallengingFirst(c, challenged, credentials) ==
    LET users == Val(config.basicAuth)
        username == Val(credentials).username
        password == Val(credentials).password
    IN
    IF credentials = None
    THEN Throws(challenged, "basic",
                AuthenticationError("Invalid Basic authentication format"))
    ELSE IF username \notin DOMAIN users
    THEN Throws(challenged, "basic", AuthenticationError("Invalid username or password"))
    ELSE IF hashPassword(password) # users[username]
    THEN Throws(challenged, "basic", AuthenticationError("Invalid username or password"))
    ELSE Returns([challenged EXCEPT !.auth = Some([method |-> "basic", user |-> username,
                                                   claims |-> None])],
                 "basic")

\* the verifier itself, from the parsed credentials on
BasicAuthParsed(c, challenged, credentials) ==
    LET users == Val(config.basicAuth)
        username == Val(credentials).username
        password == Val(credentials).password
    IN
    IF credentials = None
    THEN Throws(challenged, "basic",
                AuthenticationError("Invalid Basic authentication format"))
    ELSE IF username \notin DOMAIN users
    THEN Throws(challenged, "basic", AuthenticationError(UnknownUserMessage))
    ELSE IF hashPassword(password) # users[username]
    THEN Throws(challenged, "basic", AuthenticationError(WrongPasswordMessage))
    ELSE Returns([c EXCEPT !.auth = Some([method |-> "basic", user |-> username,
                                          claims |-> None])],
                 "basic")

\* a verifier that sends no challenge to a request without an Authorization header
BasicAuthNoChallengeWithoutHeader(c) ==
    IF c.req.authorization = None
    THEN Throws(c, "basic", AuthenticationError("Basic authentication required"))
    ELSE BasicAuthParsed(c, [c EXCEPT !.wwwAuthenticate = BasicChallenge],
                         parseBasicAuth(Val(c.req.authorization)))

BasicAuth(c) ==
    LET challenged == [c EXCEPT !.wwwAuthenticate = BasicChallenge] IN
    IF c.req.authorization = None
    THEN Throws(challenged, "basic", AuthenticationError("Basic authentication required"))
    ELSE BasicAuthParsed(c, challenged, parseBasicAuth(Val(c.req.authorization)))

\* ------------------------------------------------------------------ OIDC verifier

\* constructor: the JWKS client exists from the start iff jwksUri is configured
NewOIDCAuth(oidcConfig) == [jwksUri |-> oidcConfig.jwksUri, jwks |-> oidcConfig.jwksUri]

extractBearerToken(authHeader) ==
    IF authHeader = None \/ Val(authHeader).scheme # "Bearer"
    THEN None
    ELSE Some(Val(authHeader).cred)

\* the verified payload of a token
TokenPayload(token) ==
    CASE token = "jwt-empty-sub" ->
             [sub |-> Some(<<>>), email |-> Some(TokenEmail(token)),
              preferred_username |-> Some(TokenName(token))]
      [] token = "jwt-empty-email" ->
             [sub |-> None, email |-> Some(<<>>),
              preferred_username |-> Some(TokenName(token))]
      [] token = "jwt-no-names" ->
             [sub |-> None, email |-> None, preferred_username |-> None]
      [] OTHER ->
             [sub |-> Some(TokenSub(token)), email |-> Some(TokenEmail(token)),
              preferred_username |-> Some(TokenName(token))]

Unknown == <<"u", "n", "k", "n", "o", "w", "n">>

\* the email preferred to the subject
OidcUserEmailFirst(payload) ==
    IF ~Falsy(payload.email) THEN Val(payload.email)
    ELSE IF ~Falsy(payload.sub) THEN Val(payload.sub)
    ELSE IF ~Falsy(payload.preferred_username) THEN Val(payload.preferred_username)
    ELSE Unknown

\* payload.sub || payload.email || payload.preferred_username || 'unknown'
OidcUser(payload) ==
    IF ~Falsy(payload.sub) THEN Val(payload.sub)
    ELSE IF ~Falsy(payload.email) THEN Val(payload.email)
    ELSE IF ~Falsy(payload.preferred_username) THEN Val(payload.preferred_username)
    ELSE Unknown

\* a catch that rethrows whatever it caught
OidcCatchRethrow(error) == error

\* the catch of middleware(): an AuthenticationError passes, anything else is replaced
OidcCatch(error) ==
    IF error.type = "AuthenticationError"
    THEN error
    ELSE AuthenticationError("Authentication failed")

\* verifyToken up to its first await: without a JWKS client it awaits discoverConfig's
\* fetch, with one it awaits jwtVerify
VerifyTokenStart(c, jwks) ==
    IF jwks = None THEN Awaits(c, "discover") ELSE Awaits(c, "verify")

\* middleware() up to its first await
OidcAuthStart(c, jwks) ==
    LET token == extractBearerToken(c.req.authorization) IN
    IF token = None \/ Val(token) = ""
    THEN Throws(c, "oidc", AuthenticationError("Bearer token required"))
    ELSE VerifyTokenStart(c, jwks)

\* discoverConfig after its fetch failed, answered not-ok, or was no JSON: the catch
\* rethrows, verifyToken lets it pass, middleware() replaces it
DiscoveryError == PlainError("Failed to initialize OIDC authentication")

OidcAfterDiscoveryFailed(c) == ThrowsFor(c, "oidc", OidcCatch(DiscoveryError), DiscoveryError)

\* an instance that takes the jwks_uri of every document it receives
DiscoveredOverwrites(instance, document) ==
    IF document.jwks_uri # None
    THEN [jwksUri |-> document.jwks_uri,
          jwks |-> IF IsAbsoluteUrl(Val(document.jwks_uri))
                   THEN document.jwks_uri ELSE instance.jwks]
    ELSE instance

\* the discovered document: the instance after `if (config.jwks_uri && !this.config.jwksUri)`.
\* this.config.jwksUri is assigned first; createRemoteJWKSet(new URL(...)) is
\* assigned to this.jwks only if new URL does not throw.
Discovered(instance, document) ==
    IF document.jwks_uri # None /\ instance.jwksUri = None
    THEN [jwksUri |-> document.jwks_uri,
          jwks |-> IF IsAbsoluteUrl(Val(document.jwks_uri))
                   THEN document.jwks_uri ELSE instance.jwks]
    ELSE instance

\* new URL(config.jwks_uri) throws inside discoverConfig's try
DiscoveryThrew(instance, document) ==
    /\ document.jwks_uri # None /\ instance.jwksUri = None
    /\ ~IsAbsoluteUrl(Val(document.jwks_uri))

NoJwksError == PlainError("JWKS not configured")

\* verifyToken after discoverConfig returned
OidcAfterDiscovery(c, jwks) ==
    IF jwks = None
    THEN ThrowsFor(c, "oidc", OidcCatch(NoJwksError), NoJwksError)
    ELSE Awaits(c, "verify")

\* middleware() after jwtVerify resolved with the payload
OidcAfterVerified(c, payload) ==
    Returns([c EXCEPT !.auth = Some([method |-> "oidc", user |-> OidcUser(payload),
                                     claims |-> Some(payload)])],
            "oidc")

\* the errors jwtVerify may reject with for a token: the check the token fails, or
\* the key set that could not be fetched
JwtVerifyErrors(token) ==
    {PlainError(JwksFetchFailure)}
    \cup (IF TokenVerifies(token) THEN {} ELSE {PlainError(TokenCheckFailure(token))})

InvalidTokenError == AuthenticationError("Invalid or expired token")

\* a catch that passes on the message of what it caught
VerifyTokenCatchLeaking(error) == AuthenticationError(error.message)

\* verifyToken's catch after jwtVerify rejected: whatever the error, the same one
VerifyTokenCatch(error) == InvalidTokenError

OidcAfterVerifyFailed(c, error) ==
    ThrowsFor(c, "oidc", OidcCatch(VerifyTokenCatch(error)), error)

\* ------------------------------------------------------------------ the orchestrator

\* the second half of each `if` of createAuthMiddleware: the method's configuration
Configured(method) ==
    CASE method = "api-key" -> config.apiKeys # {}
      [] method = "oidc" -> config.oidc # None
      [] method = "basic" -> config.basicAuth # None
      [] OTHER -> FALSE

Pushed(method) == InList(config.methods, method) /\ Configured(method)

\* a chain built in the order of config.auth.methods
createAuthMiddlewareInConfigOrder ==
    IF ~config.enabled
    THEN None
    ELSE LET chain == SelectSeq(config.methods, Configured)
         IN IF Len(chain) = 0 THEN None ELSE Some(chain)

\* a chain built whatever config.auth.enabled says
createAuthMiddlewareIgnoringEnabled ==
    LET chain == SelectSeq(<<"api-key", "oidc", "basic">>, Pushed)
    IN IF Len(chain) = 0 THEN None ELSE Some(chain)

\* the chain of verifiers, pushed in the order of the three `if`s, or None when no
\* middleware is installed
createAuthMiddleware ==
    IF ~config.enabled
    THEN None
    ELSE LET chain == SelectSeq(<<"api-key", "oidc", "basic">>, Pushed)
         IN IF Len(chain) = 0 THEN None ELSE Some(chain)

middlewares == Val(createAuthMiddleware)

\* `await next()` of the real next: the request is in the downstream handler
Dispatch(c) == [c EXCEPT !.pc = "downstream", !.dispatched = @ + 1]

\* a catch that goes to the next verifier without recording the error
CaughtUnrecorded(c, error) == [c EXCEPT !.idx = @ + 1]

\* a catch that records the error and gives up on the remaining verifiers
CaughtAborting(c, error) ==
    [c EXCEPT !.errors = IF IsError(error) THEN Append(@, error.message) ELSE @,
              !.idx = Len(middlewares) + 1]

\* the catch of the loop: `errors.push(error)` for an Error, then the next verifier
Caught(c, error) ==
    [c EXCEPT !.errors = IF IsError(error) THEN Append(@, error.message) ELSE @,
              !.idx = @ + 1]

FailureMessage == "Authentication failed. Supported methods: "

\* the methods of the verifiers invoked for the request, in the order of invocation
Attempted(c) == [i \in 1..Len(c.log) |-> c.log[i].method]

\* a failure that lists the methods attempted instead of config.auth.methods
AllFailedListsAttempted(c) ==
    [c EXCEPT !.pc = "done",
              !.outcome = Some([kind |-> "rejected",
                                status |-> Some(StatusOf(AuthenticationError(FailureMessage))),
                                message |-> FailureMessage,
                                methods |-> Attempted(c)])]

\* a loop that hands the request to its handler once every verifier has failed
AllFailedCallsNext(c) == Dispatch(c)

\* after the loop: throw new AuthenticationError(...), answered by app.onError with
\* the error's status and its message, FailureMessage followed by
\* config.auth.methods.join(', ')
AllFailed(c) ==
    [c EXCEPT !.pc = "done",
              !.outcome = Some([kind |-> "rejected",
                                status |-> Some(StatusOf(AuthenticationError(FailureMessage))),
                                message |-> FailureMessage,
                                methods |-> config.methods])]

Proceeded(c) ==
    [c EXCEPT !.pc = "done",
              !.outcome = Some([kind |-> "proceeded", status |-> None, message |-> "",
                                methods |-> <<>>])]

\* a handler error with no auth middleware around it goes to app.onError
HandlerFailed(c, error) ==
    [c EXCEPT !.pc = "done",
              !.outcome = Some([kind |-> "handler-error", status |-> Some(StatusOf(error)),
                                message |-> "Internal server error", methods |-> <<>>])]

\* `await middleware(c, async () => {})` up to the verifier's first await
Invoke(method, c, jwks) ==
    CASE method = "api-key" -> ApiKeyAuth(c)
      [] method = "oidc" -> OidcAuthStart(c, jwks)
      [] method = "basic" -> BasicAuth(c)

\* The loop of composeAuthMiddleware from verifier c.idx on, run until it is
\* suspended or the request ends.  AfterVerifier is the body of the loop after
\* `await middleware(...)`: next() if it returned, the catch if it threw.
RECURSIVE ComposeLoop(_, _)
AfterVerifier(result, jwks) ==
    CASE result.kind = "awaiting" -> result.ctx
      [] result.kind = "returned" -> Dispatch(result.ctx)
      [] result.kind = "threw" -> ComposeLoop(Caught(result.ctx, result.error), jwks)

ComposeLoop(c, jwks) ==
    IF c.idx > Len(middlewares)
    THEN AllFailed(c)
    ELSE AfterVerifier(Invoke(middlewares[c.idx], c, jwks), jwks)

\* the composed middleware, called with the context of a request
composeAuthMiddleware(c, jwks) == ComposeLoop([c EXCEPT !.composed = TRUE], jwks)

\* a route pattern that ends in '*' matches the paths that begin with what precedes it
MatchesPattern(pattern, path) ==
    LET n == Len(pattern) - 1 IN
    /\ pattern[Len(pattern)] = "*"
    /\ Len(path) >= n
    /\ SubSeq(path, 1, n) = SubSeq(pattern, 1, n)

\* the middleware mounted on every path
AuthPatternEverything == <<"*">>

\* app.use('/api/*', authMiddleware)
AuthPattern == <<"api", "*">>

\* the request passes the auth middleware on its way to the handler
Guarded(c) == createAuthMiddleware # None /\ MatchesPattern(AuthPattern, c.req.path)

\* ------------------------------------------------------------------ callback server: state

\* createUi calls in flight together, and HTTP requests sent to callback servers
NumCalls == 2
NumPosts == 2
Calls == 1..NumCalls
Posts == 1..NumPosts

\* config.callbackServer.startPort (CALLBACK_START_PORT || '9221') and
\* findAvailablePort's maxAttempts
StartPort == 9221
MaxAttempts == 10

\* the ports findAvailablePort tries
Range == StartPort..(StartPort + MaxAttempts - 1)

\* what other processes listen on when the server starts: nothing, the start
\* port, the start port and the next, every port of the range
OccupiedSets == {{}, {StartPort}, {StartPort, StartPort + 1}, Range}

\* the promise that waitForCallback's executor creates; data is the body of the
\* POST it was resolved with
NoPromise == [state |-> "none", data |-> 0]
Pending == [state |-> "pending", data |-> 0]

\* `new CallbackServer(startPort)` before createUi has called it.  pc: where
\* waitForCallback is.  i: findAvailablePort's loop variable.  listening: the HTTP
\* server accepts connections on this.port.  settlements: how often the promise
\* went from pending to settled.  urlPort: the port createUi put in the browser URL.
\* ui: where createUi is.
NewCall ==
    [pc |-> "new", i |-> 0, port |-> StartPort, server |-> None, listening |-> FALSE,
     timeoutId |-> "unset", promiseResolve |-> FALSE, promise |-> NoPromise,
     settlements |-> 0, urlPort |-> None, ui |-> "new"]

\* an HTTP request not yet sent.  at: the call whose server accepted the
\* connection.  body: what parseBody resolves with.
Unsent == [pc |-> "unsent", kind |-> "", at |-> 0, body |-> 0, status |-> 0, answer |-> ""]

\* no createUi call has been made
NoCallback ==
    /\ occupied = {}
    /\ calls = [c \in Calls |-> NewCall]
    /\ posts = [p \in Posts |-> Unsent]

\* ------------------------------------------------------------------ actions

NoInstance == [jwksUri |-> None, jwks |-> None]

\* The context of a request is discarded when the request ends.  The observed
\* request keeps its last context, to be looked at; a background request keeps none.
Ended(r, c) ==
    IF c.pc = "done" /\ ~IsObserved(r) THEN [IdleContext EXCEPT !.pc = "gone"] ELSE c

Init ==
    /\ config \in Configs
    /\ oidc = IF config.oidc # None THEN NewOIDCAuth(Val(config.oidc)) ELSE NoInstance
    /\ fetches = 0
    /\ reqs = [r \in Requests |-> IdleContext]
    /\ NoCallback

\* discoverConfig issues its fetch when a run ends suspended in it
Issued(new) == IF new.pc = "discover" THEN 1 ELSE 0

Token(c) == Val(extractBearerToken(c.req.authorization))

\* A request arrives: if the auth middleware is installed and mounted on its path,
\* the composed middleware runs it through the chain; else its handler gets it at
\* once.  The background requests are interchangeable and arrive in the order of
\* their numbers.
Receive(r, content) ==
    /\ reqs[r].pc = "idle"
    /\ \A b \in Requests : (~IsObserved(b) /\ b < r) => reqs[b].pc # "idle"
    /\ LET c == [IdleContext EXCEPT !.req = content]
           new == IF Guarded(c)
                  THEN composeAuthMiddleware(c, oidc.jwks)
                  ELSE Dispatch(c)
       IN /\ reqs' = [reqs EXCEPT ![r] = Ended(r, new)]
          /\ fetches' = fetches + Issued(new)
    /\ UNCHANGED <<config, oidc, callback>>

\* The discovery fetch fails: a network error, a status that is not ok, a body
\* that is no JSON.
DiscoveryFails(r) ==
    /\ reqs[r].pc = "discover"
    /\ reqs' = [reqs EXCEPT ![r] =
                  Ended(r, AfterVerifier(OidcAfterDiscoveryFailed(reqs[r]), oidc.jwks))]
    /\ UNCHANGED <<config, oidc, fetches, callback>>

\* The documents the issuer may answer with: without jwks_uri, with one of two
\* absolute URLs, with a jwks_uri that is no absolute URL.
DiscoveryDocuments ==
    {[jwks_uri |-> None], [jwks_uri |-> Some(JwksUriDiscovered)],
     [jwks_uri |-> Some(JwksUriRotated)], [jwks_uri |-> Some(JwksUriRelative)]}

\* The discovery fetch answers with a document.
DiscoveryResponds(r, document) ==
    /\ reqs[r].pc = "discover"
    /\ LET instance == Discovered(oidc, document)
           result == IF DiscoveryThrew(oidc, document)
                     THEN OidcAfterDiscoveryFailed(reqs[r])
                     ELSE OidcAfterDiscovery(reqs[r], instance.jwks)
       IN /\ oidc' = instance
          /\ reqs' = [reqs EXCEPT ![r] = Ended(r, AfterVerifier(result, instance.jwks))]
    /\ UNCHANGED <<config, fetches, callback>>

\* jwtVerify resolves: the key set was fetched and the token verifies.
JwtVerifyResolves(r) ==
    /\ reqs[r].pc = "verify"
    /\ TokenVerifies(Token(reqs[r]))
    /\ reqs' = [reqs EXCEPT ![r] =
                  Ended(r, AfterVerifier(OidcAfterVerified(reqs[r],
                                                           TokenPayload(Token(reqs[r]))),
                                         oidc.jwks))]
    /\ UNCHANGED <<config, oidc, fetches, callback>>

\* jwtVerify rejects: the token does not verify, or the key set cannot be fetched.
JwtVerifyRejects(r) ==
    /\ reqs[r].pc = "verify"
    /\ \E error \in JwtVerifyErrors(Token(reqs[r])) :
           reqs' = [reqs EXCEPT ![r] =
                      Ended(r, AfterVerifier(OidcAfterVerifyFailed(reqs[r], error),
                                             oidc.jwks))]
    /\ UNCHANGED <<config, oidc, fetches, callback>>

\* a handler whose return is held back while any request awaits the identity provider
HandlerReturnsAfterFetches(r) ==
    /\ reqs[r].pc = "downstream"
    /\ \A other \in Requests : reqs[other].pc \notin {"discover", "verify"}
    /\ reqs' = [reqs EXCEPT ![r] = Ended(r, Proceeded(reqs[r]))]
    /\ UNCHANGED <<config, oidc, fetches, callback>>

\* The downstream handler returns: the composed middleware returns.
HandlerReturns(r) ==
    /\ reqs[r].pc = "downstream"
    /\ reqs' = [reqs EXCEPT ![r] = Ended(r, Proceeded(reqs[r]))]
    /\ UNCHANGED <<config, oidc, fetches, callback>>

HandlerError == PlainError("handler failed")

\* what the real next() may reject with: an Error, or a thrown value that is none
HandlerThrown == {HandlerError, NotAnError("handler gave up")}

\* a background request's handler rejects with an Error only
ThrownBy(r) == IF IsObserved(r) THEN HandlerThrown ELSE {HandlerError}

\* The real next() rejects.  Inside the chain that is inside the loop's try.
HandlerThrows(r, thrown) ==
    /\ reqs[r].pc = "downstream"
    /\ LET c == [reqs[r] EXCEPT !.rejections = @ + 1]
           new == IF Guarded(c)
                  THEN ComposeLoop(Caught(c, thrown), oidc.jwks)
                  ELSE HandlerFailed(c, thrown)
       IN /\ reqs' = [reqs EXCEPT ![r] = Ended(r, new)]
          /\ fetches' = fetches + Issued(new)
    /\ UNCHANGED <<config, oidc, callback>>

Next ==
    \E r \in Requests :
        \/ \E content \in ContentsOf(r) : Receive(r, content)
        \/ DiscoveryFails(r)
        \/ \E document \in DiscoveryDocuments : DiscoveryResponds(r, document)
        \/ JwtVerifyResolves(r)
        \/ JwtVerifyRejects(r)
        \/ HandlerReturns(r)
        \/ \E thrown \in ThrownBy(r) : HandlerThrows(r, thrown)

Spec == Init /\ [][Next]_vars

\* What is certain to settle.  jwtVerify fetches the key set through jose's
\* createRemoteJWKSet, which aborts its request after its timeoutDuration, so an
\* awaited jwtVerify resolves or rejects.  discoverConfig calls fetch(wellKnownUrl)
\* with no signal and no timer: nothing in the code makes that await settle.
JwtVerifySettles(r) == JwtVerifyResolves(r) \/ JwtVerifyRejects(r)

FairSpec == Spec /\ \A r \in Requests : WF_vars(JwtVerifySettles(r))

\* ------------------------------------------------------------------ callback server: actions

getPort(call) == call.port

\* resolve(value) or reject(error) of a promise: only the first call settles it
Settle(call, outcome) ==
    IF call.promise.state = "pending"
    THEN [call EXCEPT !.promise = outcome, !.settlements = @ + 1]
    ELSE call

TimedOut == [state |-> "timedOut", data |-> 0]
Failure == [state |-> "rejected", data |-> 0]

\* clearTimeout(this.timeoutId): a timer that has not fired never fires
clearTimeout(call) == [call EXCEPT !.timeoutId = IF @ = "armed" THEN "cleared" ELSE @]

\* shutdown(): close and forget the server if there is one, clear the timer if set
shutdown(call) ==
    clearTimeout(IF call.server # None
                 THEN [call EXCEPT !.server = None, !.listening = FALSE]
                 ELSE call)

\* isPortAvailable(port): a test server can listen on the port
isPortAvailable(port) ==
    /\ port \notin occupied
    /\ \A other \in Calls : ~(calls[other].listening /\ calls[other].port = port)

\* createUi up to its first suspension: new CallbackServer(startPort), then
\* waitForCallback, which runs up to the await of the first isPortAvailable, then
\* server.getPort() for the browser URL, then open(url).  The calls are
\* interchangeable and are made in the order of their numbers.
CreateUi(c) ==
    /\ calls[c].pc = "new"
    /\ \A b \in Calls : b < c => calls[b].pc # "new"
    /\ LET probing == [calls[c] EXCEPT !.pc = "probing", !.i = 0]
       IN calls' = [calls EXCEPT ![c] = [probing EXCEPT !.urlPort = Some(getPort(probing)),
                                                          !.ui = "awaiting"]]
    /\ UNCHANGED <<auth, occupied, posts>>

\* isPortAvailable answers.  Available: findAvailablePort returns the port,
\* waitForCallback stores it, creates the server, calls listen and returns the
\* promise, whose executor keeps resolve and reject and arms the timer; if another
\* process took the port since the test (taken), listen fails and the server's
\* 'error' handler rejects the promise.  Not available: the next port is tested,
\* or, after maxAttempts ports, findAvailablePort throws and the catch shuts down
\* and rethrows.
ProbeAnswers(c, taken) ==
    /\ calls[c].pc = "probing"
    /\ LET call == calls[c]
           port == StartPort + call.i
           started == [call EXCEPT !.pc = "waiting", !.port = port, !.server = Some(port),
                                   !.listening = ~taken, !.promiseResolve = TRUE,
                                   !.promise = Pending, !.timeoutId = "armed"]
       IN IF isPortAvailable(port)
          THEN /\ calls' = [calls EXCEPT ![c] = IF taken THEN Settle(started, Failure)
                                                ELSE started]
               /\ occupied' = IF taken THEN occupied \cup {port} ELSE occupied
          ELSE /\ ~taken
               /\ calls' = [calls EXCEPT ![c] =
                      IF call.i + 1 < MaxAttempts
                      THEN [call EXCEPT !.i = @ + 1]
                      ELSE shutdown([call EXCEPT !.pc = "failed", !.promise = Failure,
                                                 !.settlements = @ + 1])]
               /\ UNCHANGED occupied
    /\ UNCHANGED <<auth, posts>>

\* The timer's callback: resolve({ timedOut: true }), then shutdown().
TimerFires(c) ==
    /\ calls[c].timeoutId = "armed"
    /\ calls' = [calls EXCEPT ![c] =
           shutdown(Settle([calls[c] EXCEPT !.timeoutId = "fired"], TimedOut))]
    /\ UNCHANGED <<auth, occupied, posts>>

\* createUi after `await callbackPromise`: it returns the component for data, it
\* throws TimeoutError for a timeout and the error for a rejection.
CreateUiEnds(c) ==
    /\ calls[c].ui = "awaiting"
    /\ calls[c].promise.state \in {"data", "timedOut", "rejected"}
    /\ calls' = [calls EXCEPT ![c].ui = IF calls[c].promise.state = "data"
                                         THEN "returned" ELSE "threw"]
    /\ UNCHANGED <<auth, occupied, posts>>

Kinds == {"OPTIONS", "POST /data", "GET /data"}

OkStatus == 200
NotFoundStatus == 404
NotReadyStatus == 500

\* The page that createUi call `from` opened sends a request to the port of its
\* URL.  If a callback server of this process listens there, handleRequest runs up
\* to its end or to the await of parseBody; else the request is lost to this
\* process.  The requests are interchangeable and are sent in the order of their
\* numbers.
PostArrives(p, from, kind) ==
    /\ posts[p].pc = "unsent"
    /\ \A b \in Posts : b < p => posts[b].pc # "unsent"
    /\ calls[from].urlPort # None
    /\ LET target == Val(calls[from].urlPort)
           listeners == {s \in Calls : calls[s].listening /\ calls[s].port = target}
           at == CHOOSE s \in listeners : TRUE
           sent == [posts[p] EXCEPT !.kind = kind, !.body = p]
       IN posts' = [posts EXCEPT ![p] =
              IF listeners = {}
              THEN [sent EXCEPT !.pc = "lost"]
              ELSE IF kind = "OPTIONS"
              THEN [sent EXCEPT !.pc = "answered", !.at = at, !.status = OkStatus]
              ELSE IF kind = "POST /data"
              THEN [sent EXCEPT !.pc = "body", !.at = at]
              ELSE [sent EXCEPT !.pc = "answered", !.at = at, !.status = NotFoundStatus,
                                !.answer = "Not found"]]
    /\ UNCHANGED <<auth, occupied, calls>>

\* parseBody resolves: handleRequest goes on after its await.
BodyEnds(p) ==
    /\ posts[p].pc = "body"
    /\ LET call == calls[posts[p].at] IN
       IF call.promiseResolve
       THEN /\ calls' = [calls EXCEPT ![posts[p].at] =
                   shutdown(Settle(clearTimeout(call),
                                   [state |-> "data", data |-> posts[p].body]))]
            /\ posts' = [posts EXCEPT ![p] = [@ EXCEPT !.pc = "answered",
                                                        !.status = OkStatus,
                                                        !.answer = "success"]]
       ELSE /\ posts' = [posts EXCEPT ![p] = [@ EXCEPT !.pc = "answered",
                                                        !.status = NotReadyStatus,
                                                        !.answer = "Server not ready"]]
            /\ UNCHANGED calls
    /\ UNCHANGED <<auth, occupied>>

\* The callback servers of createUi calls that passed authentication: the
\* middleware is left out, no request is in it.
CallbackInit ==
    /\ config \in {cfg \in Configs : ~cfg.enabled}
    /\ oidc = IF config.oidc # None THEN NewOIDCAuth(Val(config.oidc)) ELSE NoInstance
    /\ fetches = 0
    /\ reqs = [r \in Requests |-> IdleContext]
    /\ occupied \in OccupiedSets
    /\ calls = [c \in Calls |-> NewCall]
    /\ posts = [p \in Posts |-> Unsent]

CallbackNext ==
    \/ \E c \in Calls :
           \/ CreateUi(c)
           \/ \E taken \in BOOLEAN : ProbeAnswers(c, taken)
           \/ TimerFires(c)
           \/ CreateUiEnds(c)
    \/ \E p \in Posts :
           \/ \E from \in Calls : \E kind \in Kinds : PostArrives(p, from, kind)
           \/ BodyEnds(p)

CallbackSpec == CallbackInit /\ [][CallbackNext]_vars

\* ------------------------------------------------------------------ what a request carries

Chain == IF createAuthMiddleware = None THEN <<>> ELSE middlewares

CarriesValidKeyHeader(q) == ~Falsy(q.apiKeyHeader) /\ Val(q.apiKeyHeader) \in ApiKeyRegistry

CarriesValidBearer(q) ==
    /\ q.authorization # None
    /\ Val(q.authorization).scheme = "Bearer"
    /\ TokenVerifies(Val(q.authorization).cred)

PositionIn(ms, m) == CHOOSE i \in 1..Len(ms) : ms[i] = m

\* of two configured methods, the one earlier in config.auth.methods
EarlierConfigured(a, b) ==
    IF PositionIn(config.methods, a) < PositionIn(config.methods, b) THEN a ELSE b

\* ------------------------------------------------------------------ C1

BothCarried(r) ==
    /\ InList(Chain, "api-key") /\ InList(Chain, "oidc")
    /\ CarriesValidKeyHeader(reqs[r].req) /\ CarriesValidBearer(reqs[r].req)
    /\ reqs[r].auth # None
    /\ reqs[r].dispatched = 1

\* C1 as stated: with api-key and oidc both enabled and a request carrying a valid
\* API key header and a valid Bearer token, the method recorded in the AuthContext
\* with which the request is passed on is the one earlier in config.auth.methods.
C1_ConfigOrderDecides ==
    \A r \in Requests :
        BothCarried(r) => Val(reqs[r].auth).method = EarlierConfigured("api-key", "oidc")

\* C1 amended: for such a request the method recorded in the AuthContext with which
\* the request is passed on is api-key, for every order of config.auth.methods: the
\* chain is built in the fixed order api-key, oidc, basic.
C1_FixedOrderDecides ==
    \A r \in Requests : BothCarried(r) => Val(reqs[r].auth).method = "api-key"

C1_Witness ==
    \E r \in Requests :
        /\ BothCarried(r)
        /\ config.methods[1] = "oidc"
        /\ reqs[r].pc = "downstream"
        /\ Val(reqs[r].auth).method = "api-key"

\* ------------------------------------------------------------------ C2

\* C2: every request handled by the composed middleware ends in exactly one of:
\* passed downstream with an AuthContext attached, or rejected with none attached.
C2_ExactlyOneOutcome ==
    \A r \in Requests :
        (reqs[r].composed /\ reqs[r].pc = "done") =>
            \/ Val(reqs[r].outcome).kind = "proceeded" /\ reqs[r].auth # None
            \/ Val(reqs[r].outcome).kind = "rejected" /\ reqs[r].auth = None

\* ------------------------------------------------------------------ C3

\* C3: while no JWKS client exists, concurrent OIDC requests cause one discovery
\* fetch: at no time are two requests each awaiting a discovery fetch of their own.
C3_SingleFlight ==
    Cardinality({r \in Requests : reqs[r].pc = "discover"}) <= 1

\* ------------------------------------------------------------------ C4

\* the request carries a credential of the method's kind
Presents(q, method) ==
    CASE method = "api-key" -> ~Falsy(q.apiKeyHeader) \/ ~Falsy(q.apiKeyQuery)
      [] method = "oidc" -> q.authorization # None /\ Val(q.authorization).scheme = "Bearer"
      [] method = "basic" -> q.authorization # None /\ Val(q.authorization).scheme = "Basic"

IsThrown(entry) == entry.result = "threw"
FromVerifier(message) == message # HandlerError.message

\* the messages of the verifiers that threw, in the order of their invocation
ThrownMessages(log) ==
    LET thrown == SelectSeq(log, IsThrown) IN [i \in 1..Len(thrown) |-> thrown[i].error.message]

\* C4 as stated: a verifier that finds no credential of its kind leaves no entry in
\* the orchestrator's error list.
C4_NoErrorWithoutCredential ==
    \A r \in Requests : \A i \in 1..Len(reqs[r].log) :
        (IsThrown(reqs[r].log[i]) /\ ~Presents(reqs[r].req, reqs[r].log[i].method)) =>
            ~InList(reqs[r].errors, reqs[r].log[i].error.message)

\* C4 amended: a verifier that finds no credential of its kind throws, and the
\* orchestrator records that error like any other and moves to the next verifier:
\* the error list holds one entry for every verifier invoked that did not succeed.
C4_EveryFailureRecorded ==
    \A r \in Requests :
        /\ SelectSeq(reqs[r].errors, FromVerifier) = ThrownMessages(reqs[r].log)
        /\ \A i \in 1..Len(reqs[r].log) :
               ~Presents(reqs[r].req, reqs[r].log[i].method) => IsThrown(reqs[r].log[i])

C4_Witness ==
    \E r \in Requests :
        /\ Len(reqs[r].log) >= 2
        /\ ~Presents(reqs[r].req, reqs[r].log[1].method)
        /\ IsThrown(reqs[r].log[1])
        /\ reqs[r].errors[1] = reqs[r].log[1].error.message
        /\ reqs[r].log[2].method = Chain[2]

\* ------------------------------------------------------------------ C5

\* C5: for every request the verifiers are invoked at most once each, in chain
\* order, and no verifier is invoked after one has succeeded.
C5_NoVerifierAfterSuccess ==
    \A r \in Requests : \A i, j \in 1..Len(reqs[r].log) :
        i < j =>
            /\ PositionIn(Chain, reqs[r].log[i].method) < PositionIn(Chain, reqs[r].log[j].method)
            /\ reqs[r].log[i].result # "returned"

\* ------------------------------------------------------------------ C6

\* the request's OIDC verification met a discovery failure
DiscoveryFailed(r) ==
    \E i \in 1..Len(reqs[r].log) : reqs[r].log[i].cause \in {DiscoveryError, NoJwksError}

OidcEntry(r) ==
    reqs[r].log[CHOOSE i \in 1..Len(reqs[r].log) : reqs[r].log[i].method = "oidc"]

\* C6 as stated: a discovery failure met while handling a request is not recorded as
\* a per-method error and the request ends with a 5xx status, not a 401.
C6_DiscoveryFailureEscapes ==
    \A r \in Requests :
        DiscoveryFailed(r) =>
            /\ ~InList(reqs[r].errors, OidcEntry(r).error.message)
            /\ reqs[r].pc = "done" => Val(Val(reqs[r].outcome).status) >= InternalErrorStatus

\* C6 amended: a discovery failure met while handling a request is replaced by the
\* OIDC middleware with AuthenticationError('Authentication failed'), which the
\* orchestrator records as the OIDC method's error; the request ends rejected with
\* status 401.
C6_DiscoveryFailureIs401 ==
    \A r \in Requests :
        DiscoveryFailed(r) =>
            /\ OidcEntry(r).error = AuthenticationError("Authentication failed")
            /\ InList(reqs[r].errors, OidcEntry(r).error.message)
            /\ reqs[r].pc = "done"
            /\ Val(reqs[r].outcome).kind = "rejected"
            /\ Val(reqs[r].outcome).status = Some(AuthenticationStatus)

C6_Witness ==
    \E r \in Requests :
        /\ DiscoveryFailed(r)
        /\ OidcEntry(r).cause = DiscoveryError
        /\ reqs[r].pc = "done"
        /\ Val(reqs[r].outcome).status = Some(AuthenticationStatus)

\* ------------------------------------------------------------------ C7

\* C7: a registry key in the header makes API-key verification succeed with method
\* api-key; a key in the query parameter is looked at only when the header carries
\* no value: a header key outside the registry fails the verification even when
\* the query parameter carries a registry key.
C7_HeaderTakesPrecedence ==
    \A r \in Requests :
        (Len(reqs[r].log) >= 1 /\ reqs[r].log[1].method = "api-key") =>
            LET q == reqs[r].req
                entry == reqs[r].log[1]
            IN /\ CarriesValidKeyHeader(q) => entry.result = "returned"
               /\ (CarriesValidKeyHeader(q) /\ Len(reqs[r].log) = 1) =>
                      /\ Val(reqs[r].auth).method = "api-key"
                      /\ Val(reqs[r].auth).user = ApiKeyUser(Val(q.apiKeyHeader))
               /\ (~Falsy(q.apiKeyHeader) /\ ~CarriesValidKeyHeader(q)) =>
                      /\ entry.result = "threw"
                      /\ entry.error = AuthenticationError("Invalid API key")
                      /\ reqs[r].auth # None => Val(reqs[r].auth).method # "api-key"
               /\ (entry.result = "returned" /\ ~CarriesValidKeyHeader(q)) =>
                      /\ Falsy(q.apiKeyHeader)
                      /\ ~Falsy(q.apiKeyQuery) /\ Val(q.apiKeyQuery) \in ApiKeyRegistry

C7_Witness ==
    \E r \in Requests :
        /\ reqs[r].req.apiKeyHeader = Some(Key(5))
        /\ reqs[r].req.apiKeyQuery = Some(Key(2))
        /\ Len(reqs[r].log) >= 1
        /\ reqs[r].log[1].method = "api-key"
        /\ reqs[r].log[1].result = "threw"

\* ------------------------------------------------------------------ C8

\* C8: the principal of an API-key authentication never contains the full key.
C8_PrincipalHidesKey ==
    \A r \in Requests :
        (reqs[r].auth # None /\ Val(reqs[r].auth).method = "api-key") =>
            ~Includes(Val(reqs[r].auth).user, Val(ExtractApiKey(reqs[r].req)))

\* ------------------------------------------------------------------ C9

BasicEntry(r) ==
    reqs[r].log[CHOOSE i \in 1..Len(reqs[r].log) : reqs[r].log[i].method = "basic"]

BasicInvoked(r) == \E i \in 1..Len(reqs[r].log) : reqs[r].log[i].method = "basic"

Parsed(r) == parseBasicAuth(Val(reqs[r].req.authorization))

\* Basic credentials of a user who is not in the store
UnknownUser(r) ==
    /\ Presents(reqs[r].req, "basic")
    /\ Parsed(r) # None
    /\ Val(Parsed(r)).username \notin DOMAIN Val(config.basicAuth)

\* Basic credentials of a stored user with another password than the stored one
WrongPassword(r) ==
    /\ Presents(reqs[r].req, "basic")
    /\ Parsed(r) # None
    /\ Val(Parsed(r)).username \in DOMAIN Val(config.basicAuth)
    /\ hashPassword(Val(Parsed(r)).password) # Val(config.basicAuth)[Val(Parsed(r)).username]

\* what the caller sees of a failed Basic verification
Observable(r) ==
    [error |-> BasicEntry(r).error, status |-> StatusOf(BasicEntry(r).error),
     header |-> reqs[r].wwwAuthenticate, outcome |-> reqs[r].outcome]

\* C9: an unknown user and a stored user with a wrong password get the same
\* failure from the Basic verifier and from the orchestrator: the same error type
\* and message, status and WWW-Authenticate header, all fixed by the configuration.
C9_SameFailure ==
    \A r \in Requests :
        (BasicInvoked(r) /\ (UnknownUser(r) \/ WrongPassword(r))) =>
            Observable(r) =
                [error |-> AuthenticationError("Invalid username or password"),
                 status |-> AuthenticationStatus,
                 header |-> BasicChallenge,
                 outcome |-> Some([kind |-> "rejected",
                                   status |-> Some(AuthenticationStatus),
                                   message |-> FailureMessage,
                                   methods |-> config.methods])]

C9_Witness ==
    \E r \in Requests :
        /\ BasicInvoked(r)
        /\ UnknownUser(r)
        /\ reqs[r].pc = "done"
        /\ BasicEntry(r).result = "threw"

\* ------------------------------------------------------------------ C10

BasicRejected(r) ==
    \E i \in 1..Len(reqs[r].log) :
        reqs[r].log[i].method = "basic" /\ IsThrown(reqs[r].log[i])

\* C10 as stated: the WWW-Authenticate header is set only for a request that
\* presented an Authorization header of the Basic scheme.
C10_ChallengeOnlyForBasicScheme ==
    \A r \in Requests :
        reqs[r].wwwAuthenticate # None => Presents(reqs[r].req, "basic")

\* C10 amended: the WWW-Authenticate: Basic realm="..." header is set exactly when
\* the Basic verifier was invoked for the request and rejected it, and it rejects
\* every request it does not authenticate: also one with no Authorization header
\* and one with a Bearer Authorization header.
C10_ChallengeWheneverBasicRejects ==
    \A r \in Requests :
        /\ reqs[r].wwwAuthenticate # None <=> BasicRejected(r)
        /\ reqs[r].wwwAuthenticate # None => reqs[r].wwwAuthenticate = BasicChallenge
        /\ (BasicInvoked(r) /\ ~Presents(reqs[r].req, "basic")) => BasicRejected(r)

C10_Witness ==
    \E r \in Requests :
        /\ reqs[r].pc = "done"
        /\ reqs[r].req.authorization = None
        /\ BasicRejected(r)
        /\ reqs[r].wwwAuthenticate = BasicChallenge
        /\ Val(reqs[r].outcome).kind = "rejected"

\* ------------------------------------------------------------------ C11

\* the Basic verifier's log entry is a failure
BasicFailed(r) == BasicInvoked(r) /\ IsThrown(BasicEntry(r))

MalformedPayload(r) == Presents(reqs[r].req, "basic") /\ Parsed(r) = None

\* C11: when the Basic verifier fails a request that presented Basic credentials
\* (malformed payload, unknown user, wrong password), the WWW-Authenticate:
\* Basic realm="<realm>" header is already set at the moment the failure is thrown.
C11_ChallengeBeforeFailure ==
    \A r \in Requests :
        (Presents(reqs[r].req, "basic") /\ BasicFailed(r)) =>
            /\ MalformedPayload(r) \/ UnknownUser(r) \/ WrongPassword(r)
            /\ BasicEntry(r).challenge = BasicChallenge

C11_Witness ==
    \E r \in Requests :
        /\ BasicFailed(r)
        /\ WrongPassword(r)
        /\ BasicEntry(r).challenge = BasicChallenge
        /\ BasicEntry(r).error = AuthenticationError(WrongPasswordMessage)

\* ------------------------------------------------------------------ C12

Rejected(r) == reqs[r].pc = "done" /\ Val(reqs[r].outcome).kind = "rejected"

\* the failure the caller sees carries none of the errors collected from the verifiers
NoReasonShown(r) ==
    /\ DOMAIN Val(reqs[r].outcome) = {"kind", "status", "message", "methods"}
    /\ \A i \in 1..Len(reqs[r].errors) : reqs[r].errors[i] # Val(reqs[r].outcome).message

\* C12 as stated: when every enabled verifier has failed, the failure shown is one
\* message and the list of the methods attempted for the request, in the order
\* they were attempted, without the reason any of them failed.
C12_ListsAttemptedInOrder ==
    \A r \in Requests :
        Rejected(r) =>
            /\ Val(reqs[r].outcome).methods = Attempted(reqs[r])
            /\ NoReasonShown(r)

\* C12 amended: the failure shown is one message and config.auth.methods as
\* configured; every method attempted is in that list, but the list is in the
\* configured order, not in the order of the attempts.  It carries the reason of
\* no method.
C12_ListsConfiguredMethods ==
    \A r \in Requests :
        Rejected(r) =>
            /\ Val(reqs[r].outcome).message = FailureMessage
            /\ Val(reqs[r].outcome).status = Some(AuthenticationStatus)
            /\ Val(reqs[r].outcome).methods = config.methods
            /\ \A i \in 1..Len(reqs[r].log) : InList(config.methods, reqs[r].log[i].method)
            /\ NoReasonShown(r)

C12_Witness ==
    \E r \in Requests :
        /\ Rejected(r)
        /\ Attempted(reqs[r]) = <<"api-key", "oidc">>
        /\ Val(reqs[r].outcome).methods = <<"oidc", "api-key">>
        /\ reqs[r].errors = <<"Invalid API key", "Invalid or expired token">>

\* ------------------------------------------------------------------ C13

AwaitsIdentityProvider(r) == reqs[r].pc \in {"discover", "verify"}

\* C13: a request whose OIDC verification awaits the identity provider (the
\* discovery fetch, or the key set fetch inside jwtVerify) eventually stops
\* awaiting it, whatever the identity provider does.
C13_OidcAwaitTerminates ==
    \A r \in Requests : AwaitsIdentityProvider(r) ~> ~AwaitsIdentityProvider(r)

\* ------------------------------------------------------------------ C14

OidcInvoked(r) == \E i \in 1..Len(reqs[r].log) : reqs[r].log[i].method = "oidc"

\* jwtVerify rejected the request's token because the token failed a check
TokenFailedCheck(r) ==
    /\ OidcInvoked(r)
    /\ OidcEntry(r).cause.message \in {TokenCheckFailure(t) : t \in Tokens \ ValidTokens}

\* C14: whichever check a presented bearer token fails (signature, issuer, audience,
\* expiry, not-before, key id), the OIDC verifier fails with the one error
\* AuthenticationError('Invalid or expired token'), and that is what the
\* orchestrator receives and records.
C14_GenericTokenFailure ==
    \A r \in Requests :
        TokenFailedCheck(r) =>
            /\ OidcEntry(r).result = "threw"
            /\ OidcEntry(r).error = AuthenticationError("Invalid or expired token")
            /\ InList(reqs[r].errors, "Invalid or expired token")
            /\ ~InList(reqs[r].errors, OidcEntry(r).cause.message)

C14_Witness ==
    \E r \in Requests :
        /\ TokenFailedCheck(r)
        /\ Token(reqs[r]) = "jwt-wrong-audience"
        /\ OidcEntry(r).cause = PlainError(TokenCheckFailure("jwt-wrong-audience"))
        /\ OidcEntry(r).error = InvalidTokenError

\* ------------------------------------------------------------------ C15

\* getAuthContext(c): c.get('auth')
getAuthContext(c) == c.auth

Arrived(r) == reqs[r].pc \in {"downstream", "discover", "verify", "done"}

\* C15: with config.auth.enabled false no auth middleware is installed, and every
\* request to /api/* is handed to its handler on arrival, once, with no verifier
\* invoked, no AuthContext and no authentication failure, whatever it carries.
C15_DisabledPassesEverything ==
    ~config.enabled =>
        /\ createAuthMiddleware = None
        /\ \A r \in Requests :
               /\ reqs[r].log = <<>> /\ reqs[r].errors = <<>>
               /\ getAuthContext(reqs[r]) = None
               /\ reqs[r].wwwAuthenticate = None
               /\ Arrived(r) =>
                      /\ reqs[r].pc \in {"downstream", "done"}
                      /\ reqs[r].dispatched = 1
               /\ reqs[r].pc = "done" => Val(reqs[r].outcome).kind # "rejected"

C15_Witness ==
    \E r \in Requests :
        /\ ~config.enabled
        /\ reqs[r].req.apiKeyHeader = Some(Key(5))
        /\ reqs[r].req.authorization = Some([scheme |-> "Bearer", cred |-> "jwt-expired"])
        /\ reqs[r].pc = "done"
        /\ Val(reqs[r].outcome).kind = "proceeded"
        /\ getAuthContext(reqs[r]) = None

\* ------------------------------------------------------------------ C16

\* the configuration a method needs, as the claim lists it
Complete(method) ==
    CASE method = "api-key" -> config.apiKeys # {}
      [] method = "oidc" ->
             /\ config.oidc # None
             /\ Val(config.oidc).issuer # "" /\ Val(config.oidc).clientId # ""
      [] method = "basic" ->
             /\ config.basicAuth # None
             /\ DOMAIN Val(config.basicAuth) # {}

\* C16: a verifier is in the chain, and so is invoked for a request, only if its
\* method is listed in config.auth.methods and its configuration is complete
\* (api-key: some key; basic: some user; oidc: issuer and clientId).
C16_ChainOnlyOfCompleteMethods ==
    /\ \A i \in 1..Len(Chain) : InList(config.methods, Chain[i]) /\ Complete(Chain[i])
    /\ \A r \in Requests : \A i \in 1..Len(reqs[r].log) :
           InList(config.methods, reqs[r].log[i].method) /\ Complete(reqs[r].log[i].method)

\* ------------------------------------------------------------------ C17

UnderApi(path) == Len(path) >= 2 /\ path[1] = "api"

C18_HandlerDispatchedOnce ==
    \A r \in Requests :
        /\ reqs[r].dispatched <= 1
        /\ (reqs[r].composed /\ reqs[r].rejections >= 1) =>
               /\ reqs[r].log[Len(reqs[r].log)].result = "returned"
               /\ reqs[r].pc = "done" => Val(reqs[r].outcome).kind # "rejected"

\* ------------------------------------------------------------------ C19

\* the verifier after the one of log entry i has been invoked: it has its own
\* entry, or the request is suspended inside it
NextInvoked(r, i) ==
    LET next == PositionIn(Chain, reqs[r].log[i].method) + 1 IN
    \/ i < Len(reqs[r].log) /\ reqs[r].log[i + 1].method = Chain[next]
    \/ /\ i = Len(reqs[r].log)
       /\ Chain[next] = "oidc" /\ reqs[r].pc \in {"discover", "verify"}

\* C19: whatever a verifier throws, the orchestrator goes on: after a verifier
\* that is not the last of the chain has thrown, the next one is invoked; after
\* the last has thrown the request is rejected by the orchestrator itself.
C19_FailureNeverAborts ==
    \A r \in Requests : \A i \in 1..Len(reqs[r].log) :
        IsThrown(reqs[r].log[i]) =>
            IF PositionIn(Chain, reqs[r].log[i].method) < Len(Chain)
            THEN NextInvoked(r, i)
            ELSE /\ i = Len(reqs[r].log)
                 /\ Rejected(r)
                 /\ Val(reqs[r].outcome).status = Some(AuthenticationStatus)

C19_Witness ==
    \E r \in Requests :
        /\ Len(reqs[r].log) = 2
        /\ reqs[r].log[1].method = "oidc"
        /\ reqs[r].log[1].cause = DiscoveryError
        /\ reqs[r].log[2].method = "basic"
        /\ reqs[r].log[2].error = AuthenticationError("Invalid Basic authentication format")
        /\ Rejected(r)

\* ------------------------------------------------------------------ C20

\* the API-key verifier was invoked for the request and found a candidate key
CandidateFound(r) ==
    /\ Len(reqs[r].log) >= 1 /\ reqs[r].log[1].method = "api-key"
    /\ ~Falsy(ExtractApiKey(reqs[r].req))

Candidate(r) == Val(ExtractApiKey(reqs[r].req))

\* C20: when the API-key verifier finds a candidate key, it succeeds if and only
\* if the candidate is a member of the configured key set, character for
\* character; otherwise it fails with 'Invalid API key' and attaches no AuthContext.
C20_ExactKeyMatch ==
    \A r \in Requests :
        CandidateFound(r) =>
            /\ reqs[r].log[1].result = "returned" <=> Candidate(r) \in config.apiKeys
            /\ Candidate(r) \notin config.apiKeys =>
                   /\ reqs[r].log[1].error = AuthenticationError("Invalid API key")
                   /\ reqs[r].auth # None => Val(reqs[r].auth).method # "api-key"
            /\ (Candidate(r) \in config.apiKeys /\ Len(reqs[r].log) = 1) =>
                   Val(reqs[r].auth).method = "api-key"

C20_Witness ==
    \E r \in Requests :
        /\ CandidateFound(r)
        /\ Candidate(r) = KeyInOtherCase
        /\ Key(2) \in config.apiKeys
        /\ reqs[r].log[1].error = AuthenticationError("Invalid API key")
        /\ reqs[r].auth = None

\* ------------------------------------------------------------------ C21

\* The reference: the decoded payload, the position of its first ':', the text
\* before it and everything after it.
Decoded(r) == Base64Decode(Val(reqs[r].req.authorization).cred)
HasColon(text) == \E i \in 1..Len(text) : text[i] = ":"
FirstColon(text) ==
    CHOOSE i \in 1..Len(text) : text[i] = ":" /\ \A j \in 1..(i - 1) : text[j] # ":"
RefUsername(r) == SubSeq(Decoded(r), 1, FirstColon(Decoded(r)) - 1)
RefPassword(r) == SubSeq(Decoded(r), FirstColon(Decoded(r)) + 1, Len(Decoded(r)))

\* the store has an entry for the username equal to the digest of the password
RefAccepts(r) ==
    /\ RefUsername(r) \in DOMAIN Val(config.basicAuth)
    /\ Val(config.basicAuth)[RefUsername(r)] = hashPassword(RefPassword(r))

\* C21: for a Basic Authorization header the Basic verifier does what the
\* reference says: a payload without ':' fails as malformed ('Invalid Basic
\* authentication format'), which is another failure than invalid credentials;
\* else the username is the text before the first ':' and the password all that
\* follows, and the verifier succeeds with AuthContext{method: basic, user:
\* username} if and only if the store maps the username to the digest of the
\* password, and fails with 'Invalid username or password' otherwise.
C21_BasicMatchesReference ==
    \A r \in Requests :
        (BasicInvoked(r) /\ Presents(reqs[r].req, "basic")) =>
            IF ~HasColon(Decoded(r))
            THEN /\ BasicEntry(r).error =
                        AuthenticationError("Invalid Basic authentication format")
                 /\ BasicEntry(r).error # AuthenticationError(UnknownUserMessage)
            ELSE IF RefAccepts(r)
            THEN /\ BasicEntry(r).result = "returned"
                 /\ reqs[r].auth =
                        Some([method |-> "basic", user |-> RefUsername(r), claims |-> None])
            ELSE /\ BasicEntry(r).error = AuthenticationError("Invalid username or password")
                 /\ reqs[r].auth # None => Val(reqs[r].auth).method # "basic"

C21_Witness ==
    \E r \in Requests :
        /\ BasicInvoked(r)
        /\ Presents(reqs[r].req, "basic")
        /\ Decoded(r) = UserCy \o <<":">> \o PassWithColon
        /\ BasicEntry(r).result = "returned"
        /\ Val(reqs[r].auth).user = UserCy

\* ------------------------------------------------------------------ C22

\* C22: once discovery has given the instance its key-set client, the instance is
\* never changed again and no discovery fetch is issued any more; a JWKS URI once
\* stored is never replaced, also when discovery fetches that started
\* concurrently are answered one after another with different documents.
C22_DiscoveryCached ==
    [][/\ oidc.jwksUri # None => oidc'.jwksUri = oidc.jwksUri
       /\ oidc.jwks # None => (oidc' = oidc /\ fetches' = fetches)]_vars

\* two discovery fetches were issued and both answered; the instance holds the
\* URI of one document
C22_Witness ==
    /\ fetches = 2
    /\ config.oidc # None /\ Val(config.oidc).jwksUri = None
    /\ oidc.jwks = Some(JwksUriRotated)
    /\ \A r \in Requests : reqs[r].pc \notin {"idle", "discover"}
    /\ \E r \in Requests : reqs[r].pc = "verify"

\* ------------------------------------------------------------------ C23

\* C23: a discovery that failed leaves nothing behind in the instance: as long as
\* no key-set client exists, the instance is as the constructor left it, no JWKS
\* URI stored, so that the discovery of the next request can still set both.
C23_FailedDiscoveryLeavesCache ==
    oidc.jwks = None => oidc.jwksUri = None

\* ------------------------------------------------------------------ C24

OidcAuthenticated(r) == reqs[r].auth # None /\ Val(reqs[r].auth).method = "oidc"

Claims(r) == Val(Val(reqs[r].auth).claims)

\* the first of sub, email, preferred_username that is present in the claims
FirstPresent(claims) ==
    IF claims.sub # None THEN Val(claims.sub)
    ELSE IF claims.email # None THEN Val(claims.email)
    ELSE IF claims.preferred_username # None THEN Val(claims.preferred_username)
    ELSE Unknown

\* a claim that is present and not the empty string
NonEmpty(o) == o # None /\ Len(Val(o)) > 0

\* the first of sub, email, preferred_username that is present and not empty
FirstNonEmpty(claims) ==
    IF NonEmpty(claims.sub) THEN Val(claims.sub)
    ELSE IF NonEmpty(claims.email) THEN Val(claims.email)
    ELSE IF NonEmpty(claims.preferred_username) THEN Val(claims.preferred_username)
    ELSE Unknown

\* C24 as stated: the OIDC principal is the first claim of sub, email,
\* preferred_username that is present, even if its value is the empty string, and
\* 'unknown' if none is present.
C24_FirstPresentClaim ==
    \A r \in Requests :
        OidcAuthenticated(r) => Val(reqs[r].auth).user = FirstPresent(Claims(r))

\* C24 amended: the OIDC principal is the first claim of sub, email,
\* preferred_username that is present and not the empty string, and 'unknown' if
\* there is none: a claim whose value is the empty string is passed over like an
\* absent one.
C24_FirstNonEmptyClaim ==
    \A r \in Requests :
        OidcAuthenticated(r) =>
            /\ Val(reqs[r].auth).user = FirstNonEmpty(Claims(r))
            /\ Claims(r) = TokenPayload(Token(reqs[r]))

C24_Witness ==
    \E r \in Requests :
        /\ OidcAuthenticated(r)
        /\ Claims(r).sub = Some(<<>>)
        /\ Val(reqs[r].auth).user = TokenEmail(Token(reqs[r]))
        /\ reqs[r].pc = "downstream"

\* ------------------------------------------------------------------ C25

\* valid Basic credentials: those of a stored user
CarriesValidBasic(q) ==
    /\ Presents(q, "basic")
    /\ config.basicAuth # None
    /\ LET parsed == parseBasicAuth(Val(q.authorization)) IN
       /\ parsed # None
       /\ Val(parsed).username \in DOMAIN Val(config.basicAuth)
       /\ Val(config.basicAuth)[Val(parsed).username] = hashPassword(Val(parsed).password)

\* a request to /api/* with a credential that a verifier of the chain accepts
\* without the identity provider
VerifiableLocally(q) ==
    /\ UnderApi(q.path)
    /\ \/ InList(Chain, "api-key") /\ CarriesValidKeyHeader(q)
       \/ InList(Chain, "basic") /\ CarriesValidBasic(q)

\* the step is the arrival of the request
Arrives(r) == reqs[r].pc = "idle" /\ reqs'[r].pc # "idle"

\* the request ends when its handler returns, the other request still awaiting
EndsWhileAwaiting(r, slow) ==
    ENABLED (/\ HandlerReturns(r)
             /\ reqs'[r].pc \in {"done", "gone"}
             /\ reqs'[slow] = reqs[slow])

\* C25: while a request awaits the identity provider (the discovery fetch, or the
\* key set fetch inside jwtVerify), another request that arrives with a valid API
\* key or valid Basic credentials is verified in the run of its arrival, with no
\* await, and its handler is given it; and a request that is in its handler can
\* end: neither step waits for the other request's fetch, which is left pending.
C25_SlowFetchStallsNoOne ==
    [][\A slow \in Requests : \A r \in Requests \ {slow} :
           AwaitsIdentityProvider(slow) =>
               /\ (Arrives(r) /\ VerifiableLocally(reqs'[r].req)) =>
                      /\ reqs'[r].pc = "downstream" /\ reqs'[r].auth # None
                      /\ reqs'[slow] = reqs[slow]
               /\ reqs[r].pc = "downstream" => EndsWhileAwaiting(r, slow)]_vars

C25_Witness ==
    \E slow \in Requests : \E r \in Requests \ {slow} :
        /\ AwaitsIdentityProvider(slow)
        /\ reqs[r].pc = "downstream" /\ reqs[r].dispatched = 1
        /\ reqs[r].auth # None /\ Val(reqs[r].auth).method \in {"api-key", "basic"}
        /\ VerifiableLocally(reqs[r].req)

\* ------------------------------------------------------------------ C26

\* the request carries a credential that is valid for the method
CarriesValid(q, method) ==
    CASE method = "api-key" ->
             ~Falsy(ExtractApiKey(q)) /\ Val(ExtractApiKey(q)) \in config.apiKeys
      [] method = "oidc" -> CarriesValidBearer(q)
      [] method = "basic" -> CarriesValidBasic(q)

\* neither an API key (header or query parameter) nor an Authorization header
NoCredential(q) == \A method \in Methods : ~Presents(q, method)

\* the run of the composed middleware has ended or is in the handler
Through(r) == reqs[r].composed /\ reqs[r].pc \in {"downstream", "done"}

\* C26: a request that went through the composed auth middleware is given to its
\* handler only after a verifier of the chain has accepted a valid credential that
\* the request carries, and that verifier's AuthContext is set; a request with no
\* credential of any kind is rejected with status 401 and its handler never runs.
C26_HandlerOnlyAfterValidCredential ==
    \A r \in Requests :
        reqs[r].composed =>
            /\ reqs[r].dispatched > 0 =>
                   /\ reqs[r].auth # None
                   /\ InList(Chain, Val(reqs[r].auth).method)
                   /\ CarriesValid(reqs[r].req, Val(reqs[r].auth).method)
            /\ (Through(r) /\ NoCredential(reqs[r].req)) =>
                   /\ Rejected(r)
                   /\ Val(reqs[r].outcome).status = Some(AuthenticationStatus)
                   /\ reqs[r].dispatched = 0

C26_Witness ==
    \E r \in Requests : \E other \in Requests \ {r} :
        /\ Through(r) /\ NoCredential(reqs[r].req) /\ Rejected(r)
        /\ Len(reqs[r].log) = 3
        /\ reqs[other].composed /\ reqs[other].dispatched > 0

\* ------------------------------------------------------------------ C27

\* C27: with config.auth.enabled true and a configuration that validateConfig
\* accepts, createAuthMiddleware returns a middleware, and every request to
\* /api/* goes through it: none is given to its handler unauthenticated.
C27_EnabledMeansGuarded ==
    (config.enabled /\ validateConfig(config)) =>
        /\ createAuthMiddleware # None
        /\ \A r \in Requests :
               (Arrived(r) /\ UnderApi(reqs[r].req.path)) => reqs[r].composed

\* ------------------------------------------------------------------ C28

\* the request was given to its handler and its handler returned
EndedAuthenticated(r) == reqs[r].pc = "done" /\ Val(reqs[r].outcome).kind = "proceeded"

\* C28: the WWW-Authenticate header is set only on a request whose authentication
\* has failed as a whole: one that the orchestrator has rejected, with status 401.
\* A request whose handler has been given it, or has returned, has no
\* WWW-Authenticate header, whatever methods are enabled and whatever it carries.
C28_ChallengeOnlyOnFailure ==
    \A r \in Requests :
        /\ reqs[r].wwwAuthenticate # None =>
               /\ Rejected(r)
               /\ Val(reqs[r].outcome).status = Some(AuthenticationStatus)
        /\ (reqs[r].pc = "downstream" \/ EndedAuthenticated(r)) =>
               reqs[r].wwwAuthenticate = None

C28_Witness ==
    \E r \in Requests :
        /\ BasicInvoked(r) /\ IsThrown(BasicEntry(r))
        /\ reqs[r].log[1].result = "returned" /\ reqs[r].dispatched = 1
        /\ reqs[r].auth # None
        /\ reqs[r].wwwAuthenticate = BasicChallenge
        /\ Rejected(r)

\* ------------------------------------------------------------------ C29

\* C29: the port in the browser URL of a createUi call is the port its callback
\* server listens on, also when the start port is occupied and findAvailablePort
\* has chosen a later one.
C29_UrlPortIsListeningPort ==
    \A c \in Calls :
        (calls[c].urlPort # None /\ calls[c].listening) =>
            Val(calls[c].urlPort) = getPort(calls[c])

\* ------------------------------------------------------------------ C30

Settled(c) == calls[c].promise.state \in {"data", "timedOut"}

\* C30: a waitForCallback call settles at most once, with the data of a POST
\* /data that its server received or with timedOut; a POST /data is answered
\* 'success' only if the call was resolved with its body; and once the call has
\* settled with data or timedOut its server is shut down and its timer will not
\* fire any more.
C30_SettlesOnceSuccessOnlyForResolver ==
    /\ \A c \in Calls :
           /\ calls[c].settlements <= 1
           /\ calls[c].promise.state = "data" =>
                  \E p \in Posts : posts[p].at = c /\ posts[p].body = calls[c].promise.data
           /\ Settled(c) =>
                  /\ calls[c].server = None /\ ~calls[c].listening
                  /\ calls[c].timeoutId \in {"cleared", "fired"}
    /\ \A p \in Posts :
           posts[p].answer = "success" =>
               calls[posts[p].at].promise = [state |-> "data", data |-> posts[p].body]

====
